---- MODULE Spec2Model ----
(***************************************************************************)
(* Model of QTFileTransfer.c: the asynchronous transfer of a remote file   *)
(* into a local file through one data buffer.  The program's globals are   *)
(* the variables named as in the source; the data handlers, the memory     *)
(* manager and the file system are modelled by what the calls made by the  *)
(* source do to them.  A state is handled as a record s so that the calls  *)
(* one routine makes are composed in the order of the source.              *)
(***************************************************************************)
EXTENDS Integers, Sequences, FiniteSets, TLC

\* ------------------------------------------------------------- bounds
MaxFileSize == 5      \* remote files have 0..MaxFileSize bytes
MaxBufferSize == 2    \* kDataBufferSize ranges over 1..MaxBufferSize
MaxTransfers == 2     \* calls of QTFileTrans_CopyRemoteFileToLocalFile in one run
MaxIoErrors == 1      \* completions that report an error in one run

\* --------------------------------------------------- program constants
NULL == 0
noErr == 0
badComponentType == -2147450879    \* 0x80008001 as a 32-bit ComponentResult
fnfErr == -43

\* the result codes a failing call of the toolbox may report
ErrorCodes == {-50}

\* strlen(theURL) of the requests made
UrlLens == {16}

VARIABLES
    kDataBufferSize,            \* capacity of the data buffer, fixed per build
    gDataBuffer,                \* NULL or the pointer returned by NewPtrClear
    gDataReader,                \* NULL or a component instance
    gDataWriter,                \* NULL or a component instance
    gReadDataHCompletionUPP,    \* NULL or a routine descriptor
    gWriteDataHCompletionUPP,   \* NULL or a routine descriptor
    gBytesToTransfer,
    gBytesTransferred,
    gDoneTransferring,
    readers,                    \* the open reader component instances
    writers,                    \* the open writer component instances
    ptrs,                       \* the pointers allocated and not disposed
    readUPPs,                   \* the read routine descriptors not disposed
    writeUPPs,                  \* the write routine descriptors not disposed
    bufData,                    \* the bytes of the buffer last allocated
    pending,                    \* the asynchronous requests not yet completed
    remoteFile,                 \* the bytes of the remote file the reader last opened
    localFile,                  \* the destination file: [exists, data]
    transfers,                  \* number of transfer requests made so far
    lastResult,                 \* what the last transfer request returned
    setupFailure,               \* the first call of the last request that failed
    deleteErr,                  \* what FSpDelete returned in the last request
    priorFile,                  \* whether the destination was there when the last
                                \* request was made, and its size
    fileAtStart,                \* the destination file when the last request returned
    issued,                     \* the requests issued for the last transfer request
    ioError,                    \* a completion of this transfer reported an error
    ioErrors,                   \* number of completions that reported an error
    sinkWritten,                \* bytes the writer has written since the last request
    badRelease,                 \* resources released while not held
    badUse,                     \* uses of a closed data handler or a disposed buffer
    crashed                     \* a release of a resource not held stopped the program

vars == <<kDataBufferSize, gDataBuffer, gDataReader, gDataWriter,
          gReadDataHCompletionUPP, gWriteDataHCompletionUPP, gBytesToTransfer,
          gBytesTransferred, gDoneTransferring, readers, writers, ptrs, readUPPs,
          writeUPPs, bufData, pending, remoteFile, localFile, transfers, lastResult,
          setupFailure, deleteErr, priorFile, fileAtStart, issued, ioError,
          ioErrors, sinkWritten, badRelease, badUse, crashed>>

State ==
    [kDataBufferSize |-> kDataBufferSize, gDataBuffer |-> gDataBuffer,
     gDataReader |-> gDataReader, gDataWriter |-> gDataWriter,
     gReadDataHCompletionUPP |-> gReadDataHCompletionUPP,
     gWriteDataHCompletionUPP |-> gWriteDataHCompletionUPP,
     gBytesToTransfer |-> gBytesToTransfer, gBytesTransferred |-> gBytesTransferred,
     gDoneTransferring |-> gDoneTransferring, readers |-> readers, writers |-> writers,
     ptrs |-> ptrs, readUPPs |-> readUPPs, writeUPPs |-> writeUPPs, bufData |-> bufData,
     pending |-> pending, remoteFile |-> remoteFile, localFile |-> localFile,
     transfers |-> transfers, lastResult |-> lastResult, setupFailure |-> setupFailure,
     deleteErr |-> deleteErr, priorFile |-> priorFile, fileAtStart |-> fileAtStart,
     issued |-> issued, ioError |-> ioError, ioErrors |-> ioErrors,
     sinkWritten |-> sinkWritten,
     badRelease |-> badRelease, badUse |-> badUse,
     crashed |-> crashed]

Becomes(s) ==
    /\ kDataBufferSize' = s.kDataBufferSize
    /\ gDataBuffer' = s.gDataBuffer
    /\ gDataReader' = s.gDataReader
    /\ gDataWriter' = s.gDataWriter
    /\ gReadDataHCompletionUPP' = s.gReadDataHCompletionUPP
    /\ gWriteDataHCompletionUPP' = s.gWriteDataHCompletionUPP
    /\ gBytesToTransfer' = s.gBytesToTransfer
    /\ gBytesTransferred' = s.gBytesTransferred
    /\ gDoneTransferring' = s.gDoneTransferring
    /\ readers' = s.readers
    /\ writers' = s.writers
    /\ ptrs' = s.ptrs
    /\ readUPPs' = s.readUPPs
    /\ writeUPPs' = s.writeUPPs
    /\ bufData' = s.bufData
    /\ pending' = s.pending
    /\ remoteFile' = s.remoteFile
    /\ localFile' = s.localFile
    /\ transfers' = s.transfers
    /\ lastResult' = s.lastResult
    /\ setupFailure' = s.setupFailure
    /\ deleteErr' = s.deleteErr
    /\ priorFile' = s.priorFile
    /\ fileAtStart' = s.fileAtStart
    /\ issued' = s.issued
    /\ ioError' = s.ioError
    /\ ioErrors' = s.ioErrors
    /\ sinkWritten' = s.sinkWritten
    /\ badRelease' = s.badRelease
    /\ badUse' = s.badUse
    /\ crashed' = s.crashed

\* ------------------------------------------------------------ helpers
Max(a, b) == IF a > b THEN a ELSE b

\* The byte counts are longs.  No sum or difference the routines form leaves
\* 0..gBytesToTransfer, so the 32-bit width never shows and plain integers do.

\* the (OSErr) cast of the return statement: the low 16 bits, signed
ToOSErr(x) == ((x + 32768) % 65536) - 32768

\* The routines never look at the bytes they move, so a file is told from any
\* other, and a byte from any other byte of its file, by giving byte i of the file
\* behind the t-th request the value 10 * t + i; a file that is there before the
\* first request has the bytes 1, 2, ...; a cleared byte is 0.
FileOf(t, k) == [i \in 1..k |-> 10 * t + i]
RemoteFiles(t) == {FileOf(t, k) : k \in 0..MaxFileSize}

NoFile == [exists |-> FALSE, data |-> <<>>]
NewFile == [exists |-> TRUE, data |-> <<>>]

Zeros(n) == [i \in 1..n |-> 0]

\* Then(v, F): F of the state v, for one statement after another.  v is worked
\* out once, however often F uses it.
Then(v, F(_)) == CHOOSE r \in {F(t) : t \in {v}} : TRUE


\* ------------------------------------------------- QTFileTrans_CloseDownHandlers
\* Releasing a resource the program does not hold is recorded in badRelease; what
\* the toolbox does then is not defined: it goes on (crash = FALSE) or the program
\* stops there (crash = TRUE).
ReleaseNotHeld(s, what, crash) ==
    [s EXCEPT !.badRelease = @ \cup {what}, !.crashed = crash]

\* the closing of the reader, were gDataReader left as it is, as gDataBuffer is
CloseReader_KeepsGlobal(s, crash) ==
    IF s.crashed \/ s.gDataReader = NULL THEN s
    ELSE IF s.gDataReader \in s.readers
         THEN [s EXCEPT !.readers = @ \ {s.gDataReader}]
         ELSE ReleaseNotHeld(s, "reader", crash)

CloseReader(s, crash) ==
    IF s.crashed \/ s.gDataReader = NULL THEN s
    ELSE LET t == IF s.gDataReader \in s.readers
                  THEN [s EXCEPT !.readers = @ \ {s.gDataReader}]
                  ELSE ReleaseNotHeld(s, "reader", crash)
         IN  IF t.crashed THEN t ELSE [t EXCEPT !.gDataReader = NULL]

CloseWriter(s, crash) ==
    IF s.crashed \/ s.gDataWriter = NULL THEN s
    ELSE LET t == IF s.gDataWriter \in s.writers
                  THEN [s EXCEPT !.writers = @ \ {s.gDataWriter}]
                  ELSE ReleaseNotHeld(s, "writer", crash)
         IN  IF t.crashed THEN t ELSE [t EXCEPT !.gDataWriter = NULL]

DisposeBuffer(s, crash) ==
    IF s.crashed \/ s.gDataBuffer = NULL THEN s
    ELSE IF s.gDataBuffer \in s.ptrs
         THEN [s EXCEPT !.ptrs = @ \ {s.gDataBuffer}]
         ELSE ReleaseNotHeld(s, "buffer", crash)

DisposeReadUPP(s, crash) ==
    IF s.crashed \/ s.gReadDataHCompletionUPP = NULL THEN s
    ELSE IF s.gReadDataHCompletionUPP \in s.readUPPs
         THEN [s EXCEPT !.readUPPs = @ \ {s.gReadDataHCompletionUPP}]
         ELSE ReleaseNotHeld(s, "readUPP", crash)

DisposeWriteUPP(s, crash) ==
    IF s.crashed \/ s.gWriteDataHCompletionUPP = NULL THEN s
    ELSE IF s.gWriteDataHCompletionUPP \in s.writeUPPs
         THEN [s EXCEPT !.writeUPPs = @ \ {s.gWriteDataHCompletionUPP}]
         ELSE ReleaseNotHeld(s, "writeUPP", crash)

\* the outcomes of a teardown: there are two when it would release a resource
\* that is not held
CrashChoices(s) ==
    IF \/ s.gDataReader \notin s.readers \cup {NULL}
       \/ s.gDataWriter \notin s.writers \cup {NULL}
       \/ s.gDataBuffer \notin s.ptrs \cup {NULL}
       \/ s.gReadDataHCompletionUPP \notin s.readUPPs \cup {NULL}
       \/ s.gWriteDataHCompletionUPP \notin s.writeUPPs \cup {NULL}
    THEN BOOLEAN ELSE {FALSE}

QTFileTrans_CloseDownHandlers(s, crash) ==
    Then(Then(Then(Then(CloseReader(s, crash),
                        LAMBDA a : CloseWriter(a, crash)),
                   LAMBDA b : DisposeBuffer(b, crash)),
              LAMBDA c : DisposeReadUPP(c, crash)),
         LAMBDA d : DisposeWriteUPP(d, crash))

\* ------------------------------------------------------ completion routines
ReadRequest(s, theRequest, off, len, refCon) ==
    [kind |-> "read", handler |-> s.gDataReader, buf |-> theRequest,
     off |-> off, len |-> len, refCon |-> refCon]

WriteRequest(s, theRequest, off, len, refCon) ==
    [kind |-> "write", handler |-> s.gDataWriter, buf |-> theRequest,
     off |-> off, len |-> len, refCon |-> refCon]

\* what is wrong with giving the request req to its data handler in state s: the
\* handler is closed, or the buffer is disposed
Misuse(s, req) ==
    (IF req.handler \in (IF req.kind = "read" THEN s.readers ELSE s.writers)
     THEN {} ELSE {"request to a closed handler"})
    \cup (IF req.buf \in s.ptrs THEN {} ELSE {"request with a disposed buffer"})

\* DataHReadAsync / DataHWrite: the handler holds the request until it completes
Issue(s, req) ==
    [s EXCEPT !.pending = Append(@, req), !.issued = Append(@, req),
              !.badUse = @ \cup Misuse(s, req)]

\* the chunk to read next (lines 285-288), and the same without the trimming of
\* the last chunk
NumBytesToRead_WholeBuffer(s) == s.kDataBufferSize

NumBytesToRead(s) ==
    IF s.gBytesToTransfer - s.gBytesTransferred > s.kDataBufferSize
    THEN s.kDataBufferSize
    ELSE s.gBytesToTransfer - s.gBytesTransferred

\* the read completion routine, were it to write at the start of the file
ReadDataCompletionProc_WritesAtZero(s, theRequest, theRefCon, theErr) ==
    Issue(s, WriteRequest(s, theRequest, 0, theRefCon, theRefCon))

\* the read completion routine, were it to ask for the next chunk as well
ReadDataCompletionProc_ReadsAhead(s, theRequest, theRefCon, theErr) ==
    LET w == Issue(s, WriteRequest(s, theRequest, s.gBytesTransferred,
                                   theRefCon, theRefCon))
    IN  IF s.gBytesTransferred + theRefCon < s.gBytesToTransfer
        THEN Issue(w, ReadRequest(w, theRequest, s.gBytesTransferred + theRefCon,
                                  1, 1))
        ELSE w

\* the read completion routine, were it to write the whole buffer each time
ReadDataCompletionProc_WritesWholeBuffer(s, theRequest, theRefCon, theErr) ==
    Issue(s, WriteRequest(s, theRequest, s.gBytesTransferred,
                          s.kDataBufferSize, s.kDataBufferSize))

\* DataHWrite(gDataWriter, theRequest, gBytesTransferred, theRefCon, ..., theRefCon)
QTFileTrans_ReadDataCompletionProc(s, theRequest, theRefCon, theErr) ==
    Issue(s, WriteRequest(s, theRequest, s.gBytesTransferred, theRefCon, theRefCon))

\* the write completion routine, were it to leave the flag alone at the end
WriteDataCompletionProc_NeverDone(s, theRequest, theRefCon, theErr) ==
    Then([s EXCEPT !.gBytesTransferred = @ + theRefCon],
         LAMBDA t :
            IF t.gBytesTransferred < t.gBytesToTransfer
            THEN Issue(t, ReadRequest(t, theRequest, t.gBytesTransferred,
                                      NumBytesToRead(t), NumBytesToRead(t)))
            ELSE t)

\* the write completion routine, were it to compare with <= instead of <
WriteDataCompletionProc_LessOrEqual(s, theRequest, theRefCon, theErr) ==
    Then([s EXCEPT !.gBytesTransferred = @ + theRefCon],
         LAMBDA t :
            IF t.gBytesTransferred <= t.gBytesToTransfer
            THEN Issue(t, ReadRequest(t, theRequest, t.gBytesTransferred,
                                      NumBytesToRead(t), NumBytesToRead(t)))
            ELSE [t EXCEPT !.gDoneTransferring = TRUE])

\* the write completion routine, were it to close down itself when all is written
WriteDataCompletionProc_ClosesWhenDone(s, theRequest, theRefCon, theErr) ==
    Then([s EXCEPT !.gBytesTransferred = @ + theRefCon],
         LAMBDA t :
            IF t.gBytesTransferred < t.gBytesToTransfer
            THEN Issue(t, ReadRequest(t, theRequest, t.gBytesTransferred,
                                      NumBytesToRead(t), NumBytesToRead(t)))
            ELSE QTFileTrans_CloseDownHandlers(
                     [t EXCEPT !.gDoneTransferring = TRUE], FALSE))

\* the write completion routine, were it to set the flag as it asks for the last
\* chunk
WriteDataCompletionProc_DoneWithLastRead(s, theRequest, theRefCon, theErr) ==
    Then([s EXCEPT !.gBytesTransferred = @ + theRefCon],
         LAMBDA t :
            IF t.gBytesTransferred < t.gBytesToTransfer
            THEN Issue([t EXCEPT !.gDoneTransferring =
                                     NumBytesToRead(t) # t.kDataBufferSize],
                       ReadRequest(t, theRequest, t.gBytesTransferred,
                                   NumBytesToRead(t), NumBytesToRead(t)))
            ELSE [t EXCEPT !.gDoneTransferring = TRUE])

\* the write completion routine, were it to count a write only when it succeeded
\* and to ask again for the chunk that was not written
WriteDataCompletionProc_CountsOnSuccess(s, theRequest, theRefCon, theErr) ==
    Then([s EXCEPT !.gBytesTransferred =
                       IF theErr = noErr THEN @ + theRefCon ELSE @],
         LAMBDA t :
            IF t.gBytesTransferred < t.gBytesToTransfer
            THEN Issue(t, ReadRequest(t, theRequest, t.gBytesTransferred,
                                      NumBytesToRead(t), NumBytesToRead(t)))
            ELSE [t EXCEPT !.gDoneTransferring = TRUE])

QTFileTrans_WriteDataCompletionProc(s, theRequest, theRefCon, theErr) ==
    Then([s EXCEPT !.gBytesTransferred = @ + theRefCon],
         LAMBDA t :
            IF t.gBytesTransferred < t.gBytesToTransfer
            THEN Issue(t, ReadRequest(t, theRequest, t.gBytesTransferred,
                                      NumBytesToRead(t), NumBytesToRead(t)))
            ELSE [t EXCEPT !.gDoneTransferring = TRUE])

\* ------------------------------------- QTFileTrans_CopyRemoteFileToLocalFile
\* The calls of the set-up, in the order of the source.  The environment makes at
\* most one of them fail in a request (fail), with result code (code).
Steps == {"FSpDelete", "NewHandleReader", "NewHandleWriter", "FSpCreate",
          "QTNewAlias", "OpenReader", "OpenWriter", "SetDataRefReader",
          "SetDataRefWriter", "NewPtrClear", "OpenForRead", "GetFileSize",
          "OpenForWrite"}

\* FSpDelete: the file is removed unless it is absent (fnfErr) or the call fails
FSpDeleteErr(file, fail, code) ==
    IF ~file.exists THEN fnfErr ELSE IF fail = "FSpDelete" THEN code ELSE noErr

\* the set-up without the call of FSpDelete
FSpDelete_Skipped(file, fail, code) == file

FSpDelete(file, fail, code) ==
    IF FSpDeleteErr(file, fail, code) = noErr THEN NoFile ELSE file

\* FSpCreate: fails on an existing file, or when the environment says so
FSpCreateErr(file, fail, code) ==
    IF file.exists THEN -48 ELSE IF fail = "FSpCreate" THEN code ELSE noErr

\* lines 220-224, and the same without the reset of the counter
StartTransfer_NoReset(s, id) ==
    [s EXCEPT !.gDoneTransferring = FALSE,
              !.gReadDataHCompletionUPP = id,
              !.readUPPs = @ \cup {id},
              !.gWriteDataHCompletionUPP = id,
              !.writeUPPs = @ \cup {id}]

StartTransfer(s, id) ==
    [s EXCEPT !.gDoneTransferring = FALSE,
              !.gBytesTransferred = 0,
              !.gReadDataHCompletionUPP = id,
              !.readUPPs = @ \cup {id},
              !.gWriteDataHCompletionUPP = id,
              !.writeUPPs = @ \cup {id}]

\* lines 163-228, were the bootstrap call made before the result of
\* DataHOpenForWrite is looked at
OpenAndStart_StartsBeforeOpenForWrite(s, theURL, fail, code) ==
    LET id == s.transfers
        s3 == IF fail = "OpenReader"
              THEN [s EXCEPT !.gDataReader = NULL]
              ELSE [s EXCEPT !.gDataReader = id, !.readers = @ \cup {id}]
        s4 == IF fail = "OpenWriter"
              THEN [s3 EXCEPT !.gDataWriter = NULL]
              ELSE [s3 EXCEPT !.gDataWriter = id, !.writers = @ \cup {id}]
        s5 == IF fail = "NewPtrClear"
              THEN [s4 EXCEPT !.gDataBuffer = NULL]
              ELSE [s4 EXCEPT !.gDataBuffer = id, !.ptrs = @ \cup {id},
                              !.bufData = Zeros(s.kDataBufferSize)]
        s5r == [s5 EXCEPT !.remoteFile = theURL]
        s6 == [s5r EXCEPT !.gBytesToTransfer = Len(theURL)]
        s7 == StartTransfer(s6, id)
    IN  IF s3.gDataReader = NULL THEN <<s3, noErr>>
        ELSE IF s4.gDataWriter = NULL THEN <<s4, noErr>>
        ELSE IF fail = "SetDataRefReader" THEN <<s4, code>>
        ELSE IF fail = "SetDataRefWriter" THEN <<s4, code>>
        ELSE IF fail = "NewPtrClear" THEN <<s5, code>>
        ELSE IF fail = "OpenForRead" THEN <<s5, code>>
        ELSE IF fail = "GetFileSize" THEN <<s5r, code>>
        ELSE <<QTFileTrans_WriteDataCompletionProc(s7, s7.gDataBuffer, 0, noErr),
               IF fail = "OpenForWrite" THEN code ELSE noErr>>

\* lines 163-228, from the opening of the data handlers to the bootstrap call:
\* the state and the value of myErr at the label bail
OpenAndStart(s, theURL, fail, code) ==
    LET id == s.transfers
        s3 == IF fail = "OpenReader"
              THEN [s EXCEPT !.gDataReader = NULL]
              ELSE [s EXCEPT !.gDataReader = id, !.readers = @ \cup {id}]
        s4 == IF fail = "OpenWriter"
              THEN [s3 EXCEPT !.gDataWriter = NULL]
              ELSE [s3 EXCEPT !.gDataWriter = id, !.writers = @ \cup {id}]
        s5 == IF fail = "NewPtrClear"
              THEN [s4 EXCEPT !.gDataBuffer = NULL]
              ELSE [s4 EXCEPT !.gDataBuffer = id, !.ptrs = @ \cup {id},
                              !.bufData = Zeros(s.kDataBufferSize)]
        s5r == [s5 EXCEPT !.remoteFile = theURL]
        s6 == [s5r EXCEPT !.gBytesToTransfer = Len(theURL)]
        s7 == StartTransfer(s6, id)
    IN  IF s3.gDataReader = NULL THEN <<s3, noErr>>
        ELSE IF s4.gDataWriter = NULL THEN <<s4, noErr>>
        ELSE IF fail = "SetDataRefReader" THEN <<s4, code>>
        ELSE IF fail = "SetDataRefWriter" THEN <<s4, code>>
        ELSE IF fail = "NewPtrClear" THEN <<s5, code>>
        ELSE IF fail = "OpenForRead" THEN <<s5, code>>
        ELSE IF fail = "GetFileSize" THEN <<s5r, code>>
        ELSE IF fail = "OpenForWrite" THEN <<s6, code>>
        ELSE <<QTFileTrans_WriteDataCompletionProc(s7, s7.gDataBuffer, 0, noErr),
               noErr>>

\* lines 110-228: the state and the value of myErr at the label bail
SetUp(s, theURL, urlLen, fail, code) ==
    LET mySize == urlLen + 1
        s1 == [s EXCEPT !.localFile = FSpDelete(@, fail, code),
                        !.deleteErr = FSpDeleteErr(s.localFile, fail, code)]
        myErr2 == FSpCreateErr(s1.localFile, fail, code)
        s2 == [s1 EXCEPT !.localFile = NewFile]
    IN  IF mySize = 0 THEN <<s, badComponentType>>
        ELSE IF fail = "NewHandleReader" THEN <<s, badComponentType>>
        ELSE IF fail = "NewHandleWriter" THEN <<s1, badComponentType>>
        ELSE IF myErr2 # noErr THEN <<s1, myErr2>>
        ELSE IF fail = "QTNewAlias" THEN <<s2, code>>
        ELSE OpenAndStart(s2, theURL, fail, code)

\* the first call of the request that reported a failure, FSpDelete apart
FailedStep(file, fail) ==
    IF fail = "FSpDelete"
    THEN IF file.exists THEN "FSpCreate" ELSE "none"
    ELSE fail

\* lines 230-235: close down on an error, return (OSErr)myErr
Bail(s, myErr, crash) ==
    LET t == IF myErr # noErr THEN QTFileTrans_CloseDownHandlers(s, crash) ELSE s
    IN  IF t.crashed THEN t
        ELSE [t EXCEPT !.lastResult = [returned |-> TRUE, err |-> ToOSErr(myErr)],
                       !.fileAtStart = t.localFile]

QTFileTrans_CopyRemoteFileToLocalFile(s, theURL, urlLen, fail, code, crash) ==
    LET s0 == [s EXCEPT !.transfers = @ + 1,
                        !.remoteFile = <<>>,
                        !.priorFile = [exists |-> s.localFile.exists,
                                       size |-> Len(s.localFile.data)],
                        !.setupFailure = FailedStep(s.localFile, fail),
                        !.issued = <<>>,
                        !.ioError = FALSE,
                        !.sinkWritten = 0,
                        !.lastResult = [returned |-> FALSE, err |-> noErr]]
        r == SetUp(s0, theURL, urlLen, fail, code)
    IN  Bail(r[1], r[2], crash)

\* ------------------------------------------------------------ data handlers
\* WriteAt: the file after len bytes of buf are written at offset off; a gap
\* between the end of the file and off reads as zero bytes
WriteAt(data, off, len, buf) ==
    [i \in 1..Max(Len(data), off + len) |->
        IF i > off /\ i <= off + len THEN buf[i - off]
        ELSE IF i <= Len(data) THEN data[i]
        ELSE 0]

\* ReadInto: the buffer after len bytes at offset off of the remote file arrive;
\* past the end of the remote file there is nothing to arrive
ReadInto(buf, off, len, remote) ==
    [i \in 1..Len(buf) |->
        IF i <= len /\ off + i <= Len(remote) THEN remote[off + i] ELSE buf[i]]

Remove(q, i) == SubSeq(q, 1, i - 1) \o SubSeq(q, i + 1, Len(q))

\* the requests a data handler has been given and has not completed
Outstanding(s, kind, handler) ==
    {i \in DOMAIN s.pending :
        s.pending[i].kind = kind /\ s.pending[i].handler = handler}

First(S) == CHOOSE i \in S : \A j \in S : i <= j

\* A request completes: with ok its bytes are moved, without they are not and an
\* error is reported; either way the completion routine is called with the
\* request's buffer and refCon.
\* the state when the request op has moved its bytes, or has failed to
Moved(s, op, ok) ==
    IF ~ok THEN [s EXCEPT !.ioError = TRUE, !.ioErrors = @ + 1]
    ELSE IF op.kind = "read"
         THEN [s EXCEPT !.bufData = ReadInto(@, op.off, op.len, s.remoteFile)]
         ELSE [s EXCEPT !.localFile.data = WriteAt(@, op.off, op.len, s.bufData),
                        !.sinkWritten = @ + op.len]

Complete(s, i, ok) ==
    Then([s EXCEPT !.pending = Remove(@, i)],
         LAMBDA s1 :
            Then(Moved(s1, s.pending[i], ok),
                 LAMBDA s2 :
                    IF s.pending[i].kind = "read"
                    THEN QTFileTrans_ReadDataCompletionProc(
                             s2, s.pending[i].buf, s.pending[i].refCon,
                             IF ok THEN noErr ELSE -36)
                    ELSE QTFileTrans_WriteDataCompletionProc(
                             s2, s.pending[i].buf, s.pending[i].refCon,
                             IF ok THEN noErr ELSE -36)))

\* DataHTask: the handler is given time; a request it holds may complete
Outcomes == {"wait", "ok", "err"}

DataHTask(s, kind, handler, outcome) ==
    IF outcome = "wait" \/ Outstanding(s, kind, handler) = {} THEN s
    ELSE Complete(s, First(Outstanding(s, kind, handler)), outcome = "ok")

\* what a turn of the event loop can bring: nothing but "wait" for a handler that
\* holds no request (the writer is given one in the turn when a read completes)
Allowed(n) == IF n < MaxIoErrors THEN Outcomes ELSE Outcomes \ {"err"}

ReaderOutcomes(s) ==
    IF \E i \in DOMAIN s.pending : s.pending[i].kind = "read"
    THEN Allowed(s.ioErrors) ELSE {"wait"}

WriterOutcomes(s, rd) ==
    IF s.pending # <<>>
    THEN Allowed(IF rd = "err" THEN s.ioErrors + 1 ELSE s.ioErrors)
    ELSE {"wait"}

\* ---------------------------------------------------- the host's event loop
\* lines 42-43: if (gDoneTransferring) QTFileTrans_CloseDownHandlers();
CloseDownIfDone(s, crash) ==
    IF s.gDoneTransferring THEN QTFileTrans_CloseDownHandlers(s, crash) ELSE s

\* the handler is given time: that is a use of it, wrong when it is closed
Slice(s, handler, open) ==
    IF handler \in open THEN s
    ELSE [s EXCEPT !.badUse = @ \cup {"time given to a closed handler"}]

\* lines 46-47: if (gDataReader != NULL) DataHTask(gDataReader);
TaskReader(s, rd) ==
    IF ~s.crashed /\ s.gDataReader # NULL
    THEN DataHTask(Slice(s, s.gDataReader, s.readers), "read", s.gDataReader, rd)
    ELSE s

\* lines 49-50: if (gDataWriter != NULL) DataHTask(gDataWriter);
TaskWriter(s, wr) ==
    IF ~s.crashed /\ s.gDataWriter # NULL
    THEN DataHTask(Slice(s, s.gDataWriter, s.writers), "write", s.gDataWriter, wr)
    ELSE s

\* ------------------------------------------------------------------ actions
Init ==
    /\ kDataBufferSize \in 1..MaxBufferSize
    /\ gDataBuffer = NULL
    /\ gDataReader = NULL
    /\ gDataWriter = NULL
    /\ gReadDataHCompletionUPP = NULL
    /\ gWriteDataHCompletionUPP = NULL
    /\ gBytesToTransfer = 0
    /\ gBytesTransferred = 0
    /\ gDoneTransferring = FALSE
    /\ readers = {}
    /\ writers = {}
    /\ ptrs = {}
    /\ readUPPs = {}
    /\ writeUPPs = {}
    /\ bufData = <<>>
    /\ pending = <<>>
    /\ remoteFile = <<>>
    /\ localFile \in {NoFile, [exists |-> TRUE, data |-> FileOf(0, MaxFileSize)]}
    /\ transfers = 0
    /\ lastResult = [returned |-> FALSE, err |-> noErr]
    /\ setupFailure = "none"
    /\ deleteErr = noErr
    /\ priorFile = [exists |-> FALSE, size |-> 0]
    /\ fileAtStart = NoFile
    /\ issued = <<>>
    /\ ioError = FALSE
    /\ ioErrors = 0
    /\ sinkWritten = 0
    /\ badRelease = {}
    /\ badUse = {}
    /\ crashed = FALSE

\* the remote files a request can tell apart: one, when the set-up fails before
\* the reader connects
Reachable(fail, t) ==
    IF fail \in {"none", "FSpDelete", "GetFileSize", "OpenForWrite"}
    THEN RemoteFiles(t) ELSE {FileOf(t, 0)}

\* the host asks for a transfer; it does so when no request is outstanding
TransferRequest ==
    /\ ~crashed
    /\ pending = <<>>
    /\ transfers < MaxTransfers
    /\ \E s0 \in {State} :
       \E fail \in Steps \cup {"none"}, code \in ErrorCodes, urlLen \in UrlLens,
          crash \in CrashChoices(s0) :
       \E theURL \in Reachable(fail, transfers + 1) :
       \E s1 \in {QTFileTrans_CopyRemoteFileToLocalFile(
                       s0, theURL, urlLen, fail, code, crash)} :
          Becomes(s1)

\* one turn of the host's event loop (lines 41-50): s0 is the state before it,
\* s1, s2 and s3 are the states after its three statements
HostLoop ==
    /\ ~crashed
    /\ \E s0 \in {State} :
       \E rd \in ReaderOutcomes(s0) :
       \E wr \in WriterOutcomes(s0, rd), crash \in CrashChoices(s0) :
       \E s1 \in {CloseDownIfDone(s0, crash)} :
       \E s2 \in {TaskReader(s1, rd)} :
       \E s3 \in {TaskWriter(s2, wr)} :
          Becomes(s3)

\* the host calls the teardown itself, when no request is outstanding
CloseDown ==
    /\ ~crashed
    /\ pending = <<>>
    /\ \E s0 \in {State} :
       \E crash \in CrashChoices(s0) :
       \E s1 \in {QTFileTrans_CloseDownHandlers(s0, crash)} :
          Becomes(s1)

Next == TransferRequest \/ HostLoop \/ CloseDown

Spec == Init /\ [][Next]_vars

\* the host's event loop keeps turning: a request that can complete does
LiveSpec == Spec /\ WF_vars(HostLoop)

\* ------------------------------------------------------------------ claims
\* the last transfer request found every call of its set-up succeeding
SetupSucceeded ==
    transfers > 0 /\ lastResult.returned /\ setupFailure = "none"

\* the last transfer request found a call of its set-up failing
SetupFailed ==
    transfers > 0 /\ lastResult.returned /\ setupFailure # "none"

ReadsIssued == SelectSeq(issued, LAMBDA r : r.kind = "read")
WritesIssued == SelectSeq(issued, LAMBDA r : r.kind = "write")

\* C1: when the set-up succeeded and no completion reported an error, then from
\* the moment gDoneTransferring is true the destination file holds exactly the
\* bytes of the remote file and gBytesTransferred = S = gBytesToTransfer.
C1_TransferCopiesFile ==
    (SetupSucceeded /\ gDoneTransferring /\ ~ioError)
        => /\ localFile.exists
           /\ localFile.data = remoteFile
           /\ gBytesTransferred = Len(remoteFile)
           /\ gBytesToTransfer = Len(remoteFile)

\* a transfer of several chunks, the last one short, is complete
C1_Witness ==
    /\ SetupSucceeded /\ gDoneTransferring /\ ~ioError
    /\ Len(remoteFile) > kDataBufferSize
    /\ Len(remoteFile) % kDataBufferSize # 0
    /\ localFile.data = remoteFile

\* C2: no resource (reader, writer, buffer, routine descriptors) is ever released
\* while it is not held, whatever the sequence of teardown calls.
C2_ReleasedOnlyWhenHeld == badRelease = {}

\* C3: when a call of the set-up failed, the teardown has run by the time the
\* request returns: both handlers are closed and the buffer is released.
C3_TeardownOnSetupFailure ==
    SetupFailed
        => /\ gDataReader = NULL /\ readers = {}
           /\ gDataWriter = NULL /\ writers = {}
           /\ ptrs = {}

\* C4: the request returns noErr exactly when every call of the set-up succeeded
\* (and then the bootstrap call was made).
C4_NoErrIffSetupSucceeded ==
    (transfers > 0 /\ lastResult.returned)
        => (lastResult.err = noErr <=> setupFailure = "none")

\* the lengths the claim expects: floor(S/C) times C, then S mod C if not 0
ExpectedLengths(S, C) ==
    [k \in 1..(S \div C) |-> C] \o (IF S % C # 0 THEN <<S % C>> ELSE <<>>)

RECURSIVE SumOfFirst(_, _)
SumOfFirst(q, n) == IF n = 0 THEN 0 ELSE q[n] + SumOfFirst(q, n - 1)

ReadLengths == [k \in DOMAIN ReadsIssued |-> ReadsIssued[k].len]

\* C5: the reads issued for a transfer are, in order, floor(S/C) reads of C bytes
\* and then one of S mod C bytes if that is not 0; each is issued at the offset
\* that is the sum of the lengths before it; when the transfer is done they are
\* all issued, and their lengths sum to S.
C5_ChunkSequence ==
    SetupSucceeded =>
        LET expected == ExpectedLengths(Len(remoteFile), kDataBufferSize)
        IN  /\ Len(ReadLengths) <= Len(expected)
            /\ \A k \in DOMAIN ReadLengths :
                  /\ ReadLengths[k] = expected[k]
                  /\ ReadsIssued[k].off = SumOfFirst(ReadLengths, k - 1)
            /\ gDoneTransferring =>
                  /\ ReadLengths = expected
                  /\ SumOfFirst(ReadLengths, Len(ReadLengths)) = Len(remoteFile)

\* two whole chunks and a short one have been read: the shape of 4096, 4096, 1808
C5_Witness ==
    /\ SetupSucceeded /\ gDoneTransferring
    /\ kDataBufferSize > 1
    /\ Len(ReadLengths) = 3
    /\ ReadLengths[1] = kDataBufferSize
    /\ ReadLengths[2] = kDataBufferSize
    /\ ReadLengths[3] = Len(remoteFile) % kDataBufferSize
    /\ ReadLengths[3] # 0

\* C6: from the bootstrap call of a transfer of more than 0 bytes until
\* gDoneTransferring is true exactly one request is outstanding, and never are
\* a read and a write outstanding together.
C6_OneOutstanding ==
    /\ (SetupSucceeded /\ gBytesToTransfer > 0 /\ ~gDoneTransferring)
           => Len(pending) = 1
    /\ ~ \E i, j \in DOMAIN pending :
           pending[i].kind = "read" /\ pending[j].kind = "write"

\* the write of the second chunk is outstanding
C6_Witness ==
    /\ SetupSucceeded /\ ~gDoneTransferring
    /\ Len(pending) = 1
    /\ pending[1].kind = "write"
    /\ Len(issued) = 4

\* C7: once a set-up has succeeded, the turns of the event loop bring the transfer
\* to gDoneTransferring, and after that to the closing of both of its data
\* handlers (unless the host asks for another transfer before the loop turns).
C7_EventuallyDoneAndClosed ==
    \A t \in 1..MaxTransfers :
        /\ (transfers = t /\ SetupSucceeded)
               ~> (transfers = t /\ SetupSucceeded /\ gDoneTransferring)
        /\ (transfers = t /\ SetupSucceeded /\ gDoneTransferring)
               ~> ((t \notin readers /\ t \notin writers) \/ transfers > t)

\* a transfer of several chunks is done and the event loop has closed its handlers
C7_Witness ==
    /\ SetupSucceeded /\ gDoneTransferring
    /\ Len(issued) >= 4
    /\ transfers \notin readers /\ transfers \notin writers
    /\ gDataReader = NULL /\ gDataWriter = NULL

\* C8: within a transfer 0 <= gBytesTransferred <= gBytesToTransfer, and no
\* completion makes gBytesTransferred smaller.
C8_Bounds ==
    SetupSucceeded =>
        (0 <= gBytesTransferred /\ gBytesTransferred <= gBytesToTransfer)

C8_Monotonic ==
    [][(transfers' = transfers) => (gBytesTransferred' >= gBytesTransferred)]_vars

C8_TransferredBounded == []C8_Bounds /\ C8_Monotonic

\* a second transfer, shorter than the first, is under way
C8_Witness ==
    /\ SetupSucceeded /\ transfers = 2
    /\ 0 < gBytesTransferred /\ gBytesTransferred < gBytesToTransfer
    /\ priorFile.exists /\ priorFile.size > gBytesToTransfer

\* C9: a request for a remote file of 0 bytes returns with gDoneTransferring set,
\* and no read and no write is ever issued for it.
C9_ZeroLength ==
    (SetupSucceeded /\ Len(remoteFile) = 0)
        => (gDoneTransferring /\ issued = <<>> /\ pending = <<>>)

\* the request for an empty file has returned and the event loop has turned
C9_Witness ==
    /\ SetupSucceeded /\ Len(remoteFile) = 0 /\ gBytesToTransfer = 0
    /\ gDoneTransferring /\ gDataReader = NULL /\ issued = <<>>

\* C10: when no call of the set-up fails (FSpDelete may report what it likes for
\* a file that is not there), the request succeeds with a new, empty destination
\* file in place of any file that was there; and the destination of a completed
\* transfer holds the remote bytes, whatever was there before.
C10_DestinationReplaced ==
    /\ (transfers > 0 /\ lastResult.returned /\ setupFailure = "none")
           => /\ deleteErr \in {noErr, fnfErr}
              /\ lastResult.err = noErr
              /\ fileAtStart = NewFile
    /\ (SetupSucceeded /\ priorFile.exists /\ gDoneTransferring /\ ~ioError)
           => localFile = [exists |-> TRUE, data |-> remoteFile]

\* a file longer than the remote one was there, and the transfer is complete
C10_Witness ==
    /\ SetupSucceeded /\ gDoneTransferring /\ ~ioError
    /\ priorFile.exists /\ priorFile.size > Len(remoteFile)
    /\ Len(remoteFile) > 0
    /\ deleteErr = noErr
    /\ localFile.data = remoteFile

\* C11: in every state gDoneTransferring implies gBytesTransferred =
\* gBytesToTransfer, whatever the requests (failing ones too), completions and
\* teardowns before it; and gDoneTransferring, once true, stays true until the
\* next transfer request.
C11_DoneImpliesAll == gDoneTransferring => gBytesTransferred = gBytesToTransfer

C11_DoneStays ==
    [][(gDoneTransferring /\ transfers' = transfers) => gDoneTransferring']_vars

C11_DoneMeansAllTransferred == []C11_DoneImpliesAll /\ C11_DoneStays

\* C12: in every state gBytesTransferred is the number of bytes the writer has
\* written with success, also after a completion that reported an error.
C12_CountsBytesWritten == gBytesTransferred = sinkWritten

\* what a run shows of the scheduling: the requests issued and outstanding
\* (kind, offset, length, tag) and the two results
Ops(q) ==
    [i \in DOMAIN q |-> [kind |-> q[i].kind, off |-> q[i].off,
                         len |-> q[i].len, refCon |-> q[i].refCon]]

Schedule(s) ==
    [issued |-> Ops(s.issued), pending |-> Ops(s.pending),
     gBytesTransferred |-> s.gBytesTransferred,
     gDoneTransferring |-> s.gDoneTransferring]

\* the requests of a transfer of S bytes through a buffer of C bytes: for each
\* chunk a read and then a write, at the same offset and of the same length
ExpectedOps(S, C) ==
    LET L == ExpectedLengths(S, C)
    IN  [i \in 1..(2 * Len(L)) |->
            [kind |-> IF i % 2 = 1 THEN "read" ELSE "write",
             off |-> ((i + 1) \div 2 - 1) * C,
             len |-> L[(i + 1) \div 2],
             refCon |-> L[(i + 1) \div 2]]]

\* the number of completions delivered in the transfer
Delivered == Len(issued) - Len(pending)

\* C13: the error a completion reports does not change the scheduling.  Two runs
\* that get the same completions with different error codes go through the same
\* states step by step when (a) from any state, the completion delivered with an
\* error and the one delivered with success leave the same schedule, and (b) the
\* schedule is a function of S, C and the number of completions delivered alone:
\* the requests issued are the first Delivered + 1 of ExpectedOps,
\* gBytesTransferred is the sum of the chunks written, and gDoneTransferring
\* holds exactly when all have been delivered.
C13_ErrorsDoNotChangeSchedule ==
    /\ \A i \in DOMAIN pending :
          Schedule(Complete(State, i, TRUE)) = Schedule(Complete(State, i, FALSE))
    /\ SetupSucceeded =>
          LET exp == ExpectedOps(gBytesToTransfer, kDataBufferSize)
              n == Delivered
          IN  /\ Ops(issued)
                    = SubSeq(exp, 1, IF n + 1 < Len(exp) THEN n + 1 ELSE Len(exp))
              /\ gBytesTransferred
                    = SumOfFirst(ExpectedLengths(gBytesToTransfer, kDataBufferSize),
                                 n \div 2)
              /\ gDoneTransferring <=> n = Len(exp)

\* a transfer of several chunks went on after a completion reported an error and
\* is done
C13_Witness ==
    /\ SetupSucceeded /\ ioError /\ gDoneTransferring
    /\ Len(issued) >= 4
    /\ sinkWritten < gBytesTransferred

\* the state of the transfer the last request started
Phase ==
    IF ~SetupSucceeded THEN "NotStarted"
    ELSE IF gDoneTransferring THEN "Done"
    ELSE IF pending # <<>> /\ pending[Len(pending)].kind = "read" THEN "Reading"
    ELSE IF pending # <<>> /\ pending[Len(pending)].kind = "write" THEN "Writing"
    ELSE "Stuck"

\* the requests issued are a read, a write, a read, ...; while the transfer is
\* not done the last one issued is the one outstanding; when it is done none is
\* outstanding and the last one issued, if any, was a write
C14_Alternation ==
    /\ \A i \in DOMAIN issued :
          issued[i].kind = IF i % 2 = 1 THEN "read" ELSE "write"
    /\ Phase # "Stuck"
    /\ Phase \in {"Reading", "Writing"} => pending = <<issued[Len(issued)]>>
    /\ Phase = "Done" => (pending = <<>> /\ Len(issued) % 2 = 0)
    /\ Phase = "NotStarted" => issued = <<>>

\* a step within one transfer: the states follow one another as in
\* Reading -> Writing -> Reading -> ... -> Done, a step of the event loop
\* delivering one completion or two; Done is left by no step, and nothing is
\* issued from it
C14_Steps ==
    [][(transfers' = transfers) =>
          /\ Len(issued') >= Len(issued)
          /\ SubSeq(issued', 1, Len(issued)) = issued
          /\ Len(issued') - Len(issued) <= 2
          /\ (Phase = "Done") => (Phase' = "Done" /\ issued' = issued)
          /\ (Phase = "Writing" /\ Phase' = "Reading")
                 => Len(issued') = Len(issued) + 1
          /\ (Phase = "Reading" /\ Phase' = "Writing")
                 => Len(issued') = Len(issued) + 1
          /\ (Phase = "NotStarted") => (Phase' = "NotStarted")]_vars

\* C14: the requests issued for a transfer follow NotStarted -> Reading ->
\* Writing -> Reading -> ... -> Done: the first is a read, a read completion
\* issues one write, a write completion issues one read or sets
\* gDoneTransferring, and nothing is issued once gDoneTransferring is true.
C14_StateMachine == []C14_Alternation /\ C14_Steps

\* two chunks have gone through Reading and Writing and the transfer is Done
C14_Witness ==
    /\ Phase = "Done"
    /\ Len(issued) = 4
    /\ issued[1].kind = "read" /\ issued[4].kind = "write"
    /\ pending = <<>>

\* C15: every write the read completion routine issues is for the buffer, the
\* offset and the length of the read that just completed: its offset is the
\* gBytesTransferred at which that read was issued (and still is gBytesTransferred
\* while the write is outstanding), its length and its tag are the length
\* requested of the read.
C15_WriteMirrorsRead ==
    /\ \A i \in DOMAIN issued :
          issued[i].kind = "write" =>
             /\ i > 1
             /\ issued[i - 1].kind = "read"
             /\ issued[i].off = issued[i - 1].off
             /\ issued[i].len = issued[i - 1].len
             /\ issued[i].refCon = issued[i - 1].len
             /\ issued[i].buf = issued[i - 1].buf
    /\ \A i \in DOMAIN pending :
          pending[i].off = gBytesTransferred

\* the write of a short last chunk, not the first, has been issued
C15_Witness ==
    /\ Len(issued) >= 4
    /\ issued[4].kind = "write"
    /\ issued[4].off = issued[3].off /\ issued[4].off > 0
    /\ issued[4].len = issued[3].len /\ issued[4].len < kDataBufferSize

\* C16: when a call of the set-up failed, no read and no write is issued for that
\* request, neither before it returns nor in any later turn of the event loop.
C16_NoIoAfterSetupFailure ==
    SetupFailed => (issued = <<>> /\ pending = <<>>)

\* the request failed at its last call, with the size of a remote file that is
\* not empty already known, and nothing was issued
C16_Witness ==
    /\ SetupFailed /\ setupFailure = "OpenForWrite"
    /\ gBytesToTransfer > 0 /\ gBytesToTransfer = Len(remoteFile)
    /\ lastResult.err # noErr
    /\ issued = <<>> /\ pending = <<>>

\* the resources of a state: the five globals that name them and what is held
Resources(s) ==
    <<s.gDataReader, s.gDataWriter, s.gDataBuffer, s.gReadDataHCompletionUPP,
      s.gWriteDataHCompletionUPP, s.readers, s.writers, s.ptrs, s.readUPPs,
      s.writeUPPs>>

\* whatever completion is delivered in a state, with or without an error, the
\* completion routine called leaves the resources as they are; and until the
\* transfer is done its handlers, buffer and routine descriptors are held
C17_Frame ==
    /\ \A i \in DOMAIN pending, ok \in BOOLEAN :
          Resources(Complete(State, i, ok)) = Resources(State)
    /\ (SetupSucceeded /\ ~gDoneTransferring) =>
          /\ gDataReader = transfers /\ transfers \in readers
          /\ gDataWriter = transfers /\ transfers \in writers
          /\ gDataBuffer = transfers /\ transfers \in ptrs
          /\ gReadDataHCompletionUPP = transfers /\ transfers \in readUPPs
          /\ gWriteDataHCompletionUPP = transfers /\ transfers \in writeUPPs

\* a step that releases something is a transfer request (its failure path), or
\* starts with gDoneTransferring true (the event loop saw it), or is the host's
\* own call of the teardown with nothing outstanding; the step whose completion
\* sets gDoneTransferring releases nothing
C17_ReleasedByTeardownOnly ==
    [][(\/ ~(readers \subseteq readers')
        \/ ~(writers \subseteq writers')
        \/ ~(ptrs \subseteq ptrs')
        \/ ~(readUPPs \subseteq readUPPs')
        \/ ~(writeUPPs \subseteq writeUPPs')
        \/ (gDataReader # NULL /\ gDataReader' = NULL)
        \/ (gDataWriter # NULL /\ gDataWriter' = NULL))
          => (transfers' # transfers \/ gDoneTransferring \/ pending = <<>>)]_vars

\* C17: the completion routines release nothing and leave gDataReader,
\* gDataWriter, gDataBuffer and the routine descriptors alone, also on the call
\* that sets gDoneTransferring; only QTFileTrans_CloseDownHandlers, called once
\* done is seen or on a failed set-up, closes the data handlers.
C17_CompletionsReleaseNothing == []C17_Frame /\ C17_ReleasedByTeardownOnly

\* the last write has completed and set gDoneTransferring; everything is held
C17_Witness ==
    /\ SetupSucceeded /\ gDoneTransferring /\ Len(issued) >= 2
    /\ pending = <<>>
    /\ gDataReader = transfers /\ transfers \in readers
    /\ gDataWriter = transfers /\ transfers \in writers
    /\ gDataBuffer = transfers /\ transfers \in ptrs

\* C18: at any time at most one reader and at most one writer are open, and an
\* open one is the one gDataReader / gDataWriter names: no request overwrites
\* the global of a handler that is still open.
C18_AtMostOneOfEach ==
    /\ Cardinality(readers) <= 1 /\ readers \subseteq {gDataReader}
    /\ Cardinality(writers) <= 1 /\ writers \subseteq {gDataWriter}

\* C19: with the event loop of lines 41-50, over transfers run one after another,
\* no data handler that is closed is given time or a request, and no request is
\* made with, or completes into, a buffer that is disposed.
C19_NoUseAfterClose ==
    /\ badUse = {}
    /\ \A i \in DOMAIN pending :
          /\ pending[i].handler
                \in (IF pending[i].kind = "read" THEN readers ELSE writers)
          /\ pending[i].buf \in ptrs
    /\ gDataReader \in readers \cup {NULL}
    /\ gDataWriter \in writers \cup {NULL}

\* a second transfer has run after a first that wrote its bytes, the event loop
\* has torn both down, and the loop has gone on turning
C19_Witness ==
    /\ transfers = 2 /\ SetupSucceeded /\ gDoneTransferring
    /\ priorFile.exists /\ priorFile.size > 0
    /\ Len(issued) >= 2 /\ sinkWritten > 0
    /\ readers = {} /\ writers = {} /\ ptrs = {}
    /\ "buffer" \in badRelease

====
